---- MODULE Spec2Model ----
(***************************************************************************)
(* Model of the conformal-action review pipeline:                          *)
(*   diff.ts     (parsePatchLines, parseChangedLines)                      *)
(*   analyzer.ts (classifySeverity, analyzeFile)                           *)
(*   review.ts   (formatCommentBody, postReview)                           *)
(*   main.ts     (run)                                                     *)
(*                                                                         *)
(* Text is modelled structurally.  A patch is the list of its lines (the   *)
(* result of patch.split('\n')); a line is a record giving the class of    *)
(* its first character and, for a line starting with '@', the new-side     *)
(* start the hunk-header regular expression captures (NoMatch when the     *)
(* regular expression does not match).  A diagnostic code is the list of   *)
(* its '_'-separated tokens, so that startsWith('W_UNSUPPORTED_') is       *)
(* computed and not assumed.                                               *)
(***************************************************************************)
EXTENDS Integers, Sequences, FiniteSets, TLC

VARIABLES
    \* ---- run() of main.ts
    pc,             \* position in run()
    config,         \* ActionConfig: strict, filterToDiff, failOnError
    changedFiles,   \* the fetched file list, with the facts run() reads of each
    mFiles,         \* the PullFile list handed to parseChangedLines / the loop
    changedLines,   \* Map<string, Set<number>>: a function on its keys
    allComments,    \* ReviewComment[]
    fileIdx,        \* loop position in mFiles
    filesAnalyzed,
    errorCount,
    outputs,        \* core.setOutput values (a function on the names set)
    reviews,        \* the createReview calls made, in order
    failed,         \* core.setFailed was called
    logs,           \* core.info / core.warning / core.error calls, in order
    engineLog,      \* history: per loop iteration, what happened to the file
    \* ---- parsePatchLines of diff.ts, line by line
    patch,          \* patchLines
    patchPos,       \* index of the next line of patchLines to scan
    currentLine,
    lines,          \* the Set<number> being built
    dpc             \* "scan" | "returned"

runVars == <<pc, config, changedFiles, mFiles, changedLines, allComments, fileIdx,
             filesAnalyzed, errorCount, outputs, reviews, failed, logs, engineLog>>
diffVars == <<patch, patchPos, currentLine, lines, dpc>>
vars == <<runVars, diffVars>>

(***************************************************************************)
(* Bounds of the model.                                                    *)
(***************************************************************************)
MaxPatchLen == 4
MaxStart == 2
MaxFiles == 2
MaxDiags == 2
MaxComments == 102
MaxPattern == 2

(***************************************************************************)
(* diff.ts                                                                 *)
(***************************************************************************)
NoMatch == -1
NoPatch == <<>>

\* A line of a patch.  first: "@" "+" "-" " " "\\" or "" (the empty line).
Line(first, newStart) == [first |-> first, newStart |-> newStart]
HunkLine(c) == Line("@", c)
BadHunkLine == Line("@", NoMatch)
AddLine == Line("+", NoMatch)
DelLine == Line("-", NoMatch)
CtxLine == Line(" ", NoMatch)
NoNewlineLine == Line("\\", NoMatch)
EmptyLine == Line("", NoMatch)

\* raw.match(/^@@ -\d+(?:,\d+)? \+(\d+)(?:,\d+)? @@/) and parseInt(hunkMatch[1], 10)
HunkMatch(raw) ==
    IF raw.first = "@" /\ raw.newStart # NoMatch THEN raw.newStart ELSE NoMatch

StartsWith(raw, ch) == raw.first = ch

\* The body of the for loop of parsePatchLines, on the pair (currentLine, lines).
ScanLineRecordsContext(st, raw) ==
    IF HunkMatch(raw) # NoMatch
    THEN [cur |-> HunkMatch(raw), set |-> st.set]
    ELSE IF StartsWith(raw, "-")
         THEN st
         ELSE [cur |-> st.cur + 1, set |-> st.set \cup {st.cur}]

ScanLine(st, raw) ==
    IF HunkMatch(raw) # NoMatch
    THEN [cur |-> HunkMatch(raw), set |-> st.set]
    ELSE IF StartsWith(raw, "+")
         THEN [cur |-> st.cur + 1, set |-> st.set \cup {st.cur}]
         ELSE IF StartsWith(raw, "-")
              THEN st
              ELSE [cur |-> st.cur + 1, set |-> st.set]

RECURSIVE ScanLines(_, _)
ScanLines(st, p) ==
    IF p = <<>> THEN st ELSE ScanLines(ScanLine(st, Head(p)), Tail(p))

\* parsePatchLines(patch), patch given as its lines.
ParsePatchLines(p) == ScanLines([cur |-> 0, set |-> {}], p).set

\* ---- parsePatchLines as a process: one action per loop iteration
ScanNext ==
    /\ dpc = "scan"
    /\ patchPos <= Len(patch)
    /\ LET st == ScanLine([cur |-> currentLine, set |-> lines], patch[patchPos])
       IN  /\ currentLine' = st.cur
           /\ lines' = st.set
    /\ patchPos' = patchPos + 1
    /\ UNCHANGED <<patch, dpc, runVars>>

ParseReturn ==
    /\ dpc = "scan"
    /\ patchPos > Len(patch)
    /\ dpc' = "returned"
    /\ UNCHANGED <<patch, patchPos, currentLine, lines, runVars>>

PatchLineDomain ==
    {HunkLine(c) : c \in 1..MaxStart}
        \cup {BadHunkLine, AddLine, DelLine, CtxLine, NoNewlineLine, EmptyLine}

RECURSIVE SeqsUpTo(_, _)
SeqsUpTo(S, n) ==
    IF n = 0 THEN {<<>>}
    ELSE LET shorter == SeqsUpTo(S, n - 1)
         IN  shorter \cup {Append(s, x) : s \in {t \in shorter : Len(t) = n - 1}, x \in S}

\* split('\n') never returns an empty list
PatchDomain == {p \in SeqsUpTo(PatchLineDomain, MaxPatchLen) : Len(p) >= 1}

(***************************************************************************)
(* analyzer.ts                                                             *)
(***************************************************************************)
\* A diagnostic code is the list of its '_'-separated tokens:
\* W_INDEX_OUT_OF_BOUNDS is <<"W", "INDEX", "OUT", "OF", "BOUNDS">>.
ERROR_CODES ==
    { <<"W", "INNER", "DIM", "MISMATCH">>,
      <<"W", "ELEMENTWISE", "MISMATCH">>,
      <<"W", "CONSTRAINT", "CONFLICT">>,
      <<"W", "HORZCAT", "ROW", "MISMATCH">>,
      <<"W", "VERTCAT", "COL", "MISMATCH">>,
      <<"W", "RESHAPE", "MISMATCH">>,
      <<"W", "INDEX", "OUT", "OF", "BOUNDS">>,
      <<"W", "DIVISION", "BY", "ZERO">>,
      <<"W", "ARITHMETIC", "TYPE", "MISMATCH">>,
      <<"W", "TRANSPOSE", "TYPE", "MISMATCH">>,
      <<"W", "NEGATE", "TYPE", "MISMATCH">>,
      <<"W", "CONCAT", "TYPE", "MISMATCH">>,
      <<"W", "INDEX", "ASSIGN", "TYPE", "MISMATCH">>,
      <<"W", "POSSIBLY", "NEGATIVE", "DIM">>,
      <<"W", "FUNCTION", "ARG", "COUNT", "MISMATCH">>,
      <<"W", "LAMBDA", "ARG", "COUNT", "MISMATCH">>,
      <<"W", "MULTI", "ASSIGN", "COUNT", "MISMATCH">>,
      <<"W", "MULTI", "ASSIGN", "NON", "CALL">>,
      <<"W", "MULTI", "ASSIGN", "BUILTIN">>,
      <<"W", "PROCEDURE", "IN", "EXPR">>,
      <<"W", "BREAK", "OUTSIDE", "LOOP">>,
      <<"W", "CONTINUE", "OUTSIDE", "LOOP">>,
      <<"W", "STRICT", "MODE">>,
      <<"W", "MLDIVIDE", "DIM", "MISMATCH">>,
      <<"W", "MATRIX", "POWER", "NON", "SQUARE">> }

STRICT_ONLY_CODES ==
    { <<"W", "UNKNOWN", "FUNCTION">>,
      <<"W", "RECURSIVE", "FUNCTION">>,
      <<"W", "RECURSIVE", "LAMBDA">>,
      <<"W", "UNSUPPORTED", "BUILTIN">>,
      <<"W", "UNSUPPORTED", "SYNTAX">>,
      <<"W", "UNSUPPORTED", "INDEX", "TYPE">>,
      <<"W", "UNSUPPORTED", "FIELD", "BASE">>,
      <<"W", "UNSUPPORTED", "HANDLE", "TARGET">>,
      <<"W", "UNSUPPORTED", "SWITCH", "EXPR">>,
      <<"W", "END", "OUTSIDE", "INDEXING">>,
      <<"W", "EXTERNAL", "PARSE", "ERROR">>,
      <<"W", "STRUCT", "FIELD", "NOT", "FOUND">>,
      <<"W", "CELL", "TYPE", "MISMATCH">>,
      <<"W", "INDEX", "INTO", "NON", "MATRIX">>,
      <<"W", "NON", "MATRIX", "MULTIPLICATION">>,
      <<"W", "SUBSCRIPT", "ON", "NON", "INDEXABLE">>,
      <<"W", "FIELD", "ACCESS", "ON", "NON", "STRUCT">>,
      <<"W", "UNKNOWN", "SIZE", "FUNCTION">>,
      <<"W", "GLOBAL", "NOT", "SUPPORTED">> }

\* code.startsWith('W_UNSUPPORTED_'): the first two tokens are W and UNSUPPORTED and a
\* third token (possibly empty) follows the second underscore.
StartsWithUnsupported(code) ==
    /\ Len(code) >= 3
    /\ code[1] = "W"
    /\ code[2] = "UNSUPPORTED"

ClassifySeverityNoErrorSet(code) ==
    IF StartsWithUnsupported(code) THEN "hint" ELSE "warning"

ClassifySeverity(code) ==
    IF code \in ERROR_CODES THEN "error"
    ELSE IF StartsWithUnsupported(code) THEN "hint"
    ELSE "warning"

ReviewComment(path, line, code, body, severity) ==
    [path |-> path, line |-> line, code |-> code, body |-> body, severity |-> severity]

\* What interop.analyzeSource can do: throw, report a parse error, or return diagnostics.
Crash == [kind |-> "throw", parseError |-> "", diagnostics |-> <<>>]
ParseFailure(ds) == [kind |-> "result", parseError |-> "unexpected token", diagnostics |-> ds]
Diagnostics(ds) == [kind |-> "result", parseError |-> "", diagnostics |-> ds]

Diagnostic(line, code, message) == [line |-> line, code |-> code, message |-> message]

\* The for loop of analyzeFile over result.diagnostics.
RECURSIVE CommentsOf(_, _, _)
CommentsOf(filePath, ds, strict) ==
    IF ds = <<>> THEN <<>>
    ELSE LET d == Head(ds)
             rest == CommentsOf(filePath, Tail(ds), strict)
         IN  IF ~strict /\ d.code \in STRICT_ONLY_CODES
             THEN rest
             ELSE <<ReviewComment(filePath, d.line, d.code, d.message,
                                  ClassifySeverity(d.code))>> \o rest

InternalErrorComment(filePath) ==
    ReviewComment(filePath, 1, <<"W", "INTERNAL", "ERROR">>,
                  "Conformal: internal analysis error on this file.", "warning")

ParseErrorComment(filePath, parseError) ==
    ReviewComment(filePath, 1, <<"W", "PARSE", "ERROR">>,
                  "Conformal: syntax error: " \o parseError, "error")

\* analyzeFile(filePath, content, siblings, options), given what the engine does.
AnalyzeFileDiagnosticsAfterParseError(filePath, engine, strict) ==
    IF engine.kind = "throw" THEN <<InternalErrorComment(filePath)>>
    ELSE IF engine.parseError # ""
         THEN <<ParseErrorComment(filePath, engine.parseError)>>
                  \o CommentsOf(filePath, engine.diagnostics, strict)
         ELSE CommentsOf(filePath, engine.diagnostics, strict)

AnalyzeFile(filePath, engine, strict) ==
    IF engine.kind = "throw" THEN <<InternalErrorComment(filePath)>>
    ELSE IF engine.parseError # "" THEN <<ParseErrorComment(filePath, engine.parseError)>>
    ELSE CommentsOf(filePath, engine.diagnostics, strict)
(***************************************************************************)
(* review.ts                                                               *)
(***************************************************************************)
InlineLimit == 50
SummaryLimit == 20

Min(a, b) == IF a < b THEN a ELSE b

\* s.slice(0, n)
Slice(s, n) == SubSeq(s, 1, Min(n, Len(s)))

FormatCommentBody(c) ==
    [icon |-> IF c.severity = "error" THEN ":x:"
              ELSE IF c.severity = "warning" THEN ":warning:"
              ELSE ":information_source:",
     tool |-> "**Conformal**",
     code |-> c.code,
     text |-> c.body]

\* const fileLines = changedLines.get(c.path); fileLines && fileLines.has(c.line)
OnDiffLine(c, index) == c.path \in DOMAIN index /\ c.line \in index[c.path]

InlineOf(comments, index) == SelectSeq(comments, LAMBDA c : OnDiffLine(c, index))
OutOfDiffOf(comments, index) == SelectSeq(comments, LAMBDA c : ~OnDiffLine(c, index))

\* One element of bodyParts.  items and more are those of the <details> summary;
\* more = 0 stands for the absent "... and N more" line.
BodyPart(kind, count, items, more) ==
    [kind |-> kind, count |-> count, items |-> items, more |-> more]

SummaryItem(c) == [path |-> c.path, line |-> c.line, text |-> c.body]

SummaryItems(cs) == [k \in 1..Len(cs) |-> SummaryItem(cs[k])]

InlineToPostUncapped(comments, index) == InlineOf(comments, index)

InlineToPost(comments, index) == Slice(InlineOf(comments, index), InlineLimit)

OverflowPart(comments, index) ==
    LET overflow == Len(InlineOf(comments, index)) - Len(InlineToPost(comments, index))
    IN  IF overflow > 0 THEN <<BodyPart("overflow", overflow, <<>>, 0)>> ELSE <<>>

OutOfDiffPartUnconditional(comments, index, filterToDiff) ==
    LET outOfDiffToShow == OutOfDiffOf(comments, index)
    IN  IF Len(outOfDiffToShow) > 0
        THEN <<BodyPart("outOfDiff", Len(outOfDiffToShow),
                        SummaryItems(Slice(outOfDiffToShow, SummaryLimit)),
                        IF Len(outOfDiffToShow) > SummaryLimit
                        THEN Len(outOfDiffToShow) - SummaryLimit ELSE 0)>>
        ELSE <<>>

OutOfDiffPart(comments, index, filterToDiff) ==
    LET outOfDiffToShow == IF filterToDiff THEN OutOfDiffOf(comments, index) ELSE <<>>
    IN  IF Len(outOfDiffToShow) > 0
        THEN <<BodyPart("outOfDiff", Len(outOfDiffToShow),
                        SummaryItems(Slice(outOfDiffToShow, SummaryLimit)),
                        IF Len(outOfDiffToShow) > SummaryLimit
                        THEN Len(outOfDiffToShow) - SummaryLimit ELSE 0)>>
        ELSE <<>>

BodyParts(comments, index, filterToDiff) ==
    OverflowPart(comments, index) \o OutOfDiffPart(comments, index, filterToDiff)

AllInlinePostsOutOfDiff(comments, index, filterToDiff) ==
    IF filterToDiff
    THEN InlineToPost(comments, index)
    ELSE Slice(InlineToPost(comments, index) \o OutOfDiffOf(comments, index), InlineLimit)

AllInline(comments, index, filterToDiff) ==
    IF filterToDiff
    THEN InlineToPost(comments, index)
    ELSE Slice(InlineToPost(comments, index)
                   \o SelectSeq(OutOfDiffOf(comments, index),
                                LAMBDA c : OnDiffLine(c, index)),
               InlineLimit)

InlineEntry(c) ==
    [path |-> c.path, line |-> c.line, side |-> "RIGHT", body |-> FormatCommentBody(c)]

InlineEntries(cs) == [k \in 1..Len(cs) |-> InlineEntry(cs[k])]

\* A createReview call: its argument (body = <<>> stands for undefined) and how the
\* platform answered it.
ReviewCall(comments, index, filterToDiff, response) ==
    [event |-> "COMMENT",
     body |-> BodyParts(comments, index, filterToDiff),
     comments |-> InlineEntries(AllInline(comments, index, filterToDiff)),
     response |-> response]

SubmitsAlways(comments, index, filterToDiff) == TRUE

\* postReview reaches createReview (it returns early otherwise).
Submits(comments, index, filterToDiff) ==
    ~(Len(AllInline(comments, index, filterToDiff)) = 0
        /\ Len(BodyParts(comments, index, filterToDiff)) = 0)
(***************************************************************************)
(* diff.ts: parseChangedLines                                              *)
(***************************************************************************)
PullFile(filename, status, p) == [filename |-> filename, status |-> status, patch |-> p]

\* !file.patch: the patch is undefined or the empty string (whose split is one empty line)
NoPatchText(file) == file.patch = NoPatch \/ file.patch = <<EmptyLine>>

RECURSIVE ParseChangedLinesKeepsRemoved(_)
ParseChangedLinesKeepsRemoved(files) ==
    IF files = <<>> THEN << >>
    ELSE LET file == files[Len(files)]
             result == ParseChangedLinesKeepsRemoved(SubSeq(files, 1, Len(files) - 1))
         IN  IF NoPatchText(file) THEN result
             ELSE [k \in DOMAIN result \cup {file.filename} |->
                       IF k = file.filename THEN ParsePatchLines(file.patch) ELSE result[k]]

\* The map after the for loop has processed files[1..Len(files)]: result.set on the
\* last file overrides what the earlier ones put under the same key.
RECURSIVE ParseChangedLines(_)
ParseChangedLines(files) ==
    IF files = <<>> THEN << >>
    ELSE LET file == files[Len(files)]
             result == ParseChangedLines(SubSeq(files, 1, Len(files) - 1))
         IN  IF file.status = "removed" THEN result
             ELSE IF NoPatchText(file) THEN result
             ELSE [k \in DOMAIN result \cup {file.filename} |->
                       IF k = file.filename THEN ParsePatchLines(file.patch) ELSE result[k]]

(***************************************************************************)
(* main.ts: run()                                                          *)
(***************************************************************************)
\* A file name is the record of its directory, base name and extension.
FileName(dir, base, ext) == [dir |-> dir, base |-> base, ext |-> ext]

EndsWithM(filename) == filename.ext = "m"

\* minimatch(filename, config.paths) for the two globs of the README.
Minimatch(filename, glob) ==
    CASE glob = "**/*.m" -> filename.ext = "m"
      [] glob = "src/**/*.m" -> filename.dir = "src" /\ filename.ext = "m"
      [] OTHER -> FALSE

MFilesOf(files, glob) ==
    SelectSeq(files, LAMBDA f : /\ f.status # "removed"
                                /\ EndsWithM(f.filename)
                                /\ Minimatch(f.filename, glob))

NoOutputs == << >>
SetOutputs(total, errors, analyzed) ==
    [name \in {"total_warnings", "error_count", "files_analyzed"} |->
        CASE name = "total_warnings" -> ToString(total)
          [] name = "error_count" -> ToString(errors)
          [] OTHER -> ToString(analyzed)]

Log(level, msg) == [level |-> level, msg |-> msg]

ErrorCountOf(comments) == Len(SelectSeq(comments, LAMBDA c : c.severity = "error"))

NoEngine == [kind |-> "none", parseError |-> "", diagnostics |-> <<>>]
LoopEntry(filename, what, engine) == [path |-> filename, what |-> what, engine |-> engine]

\* if (!ctx.payload.pull_request) return
SkipNotPullRequest ==
    /\ pc = "start"
    /\ ~config.pullRequest
    /\ pc' = "done"
    /\ logs' = Append(logs, Log("info", "Not a pull_request event. Skipping."))
    /\ UNCHANGED <<config, changedFiles, mFiles, changedLines, allComments, fileIdx,
                   filesAnalyzed, errorCount, outputs, reviews, failed, engineLog, diffVars>>

\* the filter to .m files, and the early return when none is left
FilterFiles ==
    /\ pc = "start"
    /\ config.pullRequest
    /\ mFiles' = MFilesOf(changedFiles, config.paths)
    /\ IF Len(mFiles') = 0
       THEN /\ logs' = Append(logs, Log("info", "No .m files changed in this PR."))
            /\ outputs' = SetOutputs(0, 0, 0)
            /\ pc' = "done"
       ELSE /\ pc' = "parse"
            /\ UNCHANGED <<logs, outputs>>
    /\ UNCHANGED <<config, changedFiles, changedLines, allComments, fileIdx,
                   filesAnalyzed, errorCount, reviews, failed, engineLog, diffVars>>

\* const changedLines = parseChangedLines(mFiles)
ParseDiffs ==
    /\ pc = "parse"
    /\ changedLines' = ParseChangedLines(mFiles)
    /\ pc' = "analyze"
    /\ UNCHANGED <<config, changedFiles, mFiles, allComments, fileIdx, filesAnalyzed,
                   errorCount, outputs, reviews, failed, logs, engineLog, diffVars>>

\* one iteration of the loop: readFileSync throws
SkipUnreadable ==
    /\ pc = "analyze"
    /\ fileIdx <= Len(mFiles)
    /\ logs' = Append(logs, Log("warning", "Could not read file, skipping."))
    /\ engineLog' = Append(engineLog, LoopEntry(mFiles[fileIdx].filename, "unreadable", NoEngine))
    /\ fileIdx' = fileIdx + 1
    /\ UNCHANGED <<pc, config, changedFiles, mFiles, changedLines, allComments,
                   filesAnalyzed, errorCount, outputs, reviews, failed, diffVars>>

\* one iteration of the loop: the content holds a NUL character
SkipBinary ==
    /\ pc = "analyze"
    /\ fileIdx <= Len(mFiles)
    /\ logs' = Append(logs, Log("info", "Skipping binary file"))
    /\ engineLog' = Append(engineLog, LoopEntry(mFiles[fileIdx].filename, "binary", NoEngine))
    /\ fileIdx' = fileIdx + 1
    /\ UNCHANGED <<pc, config, changedFiles, mFiles, changedLines, allComments,
                   filesAnalyzed, errorCount, outputs, reviews, failed, diffVars>>

\* one iteration of the loop: the file is analysed; engine is what analyzeSource does
AnalyzeOne(engines) ==
    /\ pc = "analyze"
    /\ fileIdx <= Len(mFiles)
    /\ \E engine \in engines :
          /\ allComments' = allComments \o AnalyzeFile(mFiles[fileIdx].filename, engine,
                                                       config.strict)
          /\ engineLog' = Append(engineLog,
                                 LoopEntry(mFiles[fileIdx].filename, "analyzed", engine))
    /\ filesAnalyzed' = filesAnalyzed + 1
    /\ fileIdx' = fileIdx + 1
    /\ UNCHANGED <<pc, config, changedFiles, mFiles, changedLines, errorCount, outputs,
                   reviews, failed, logs, diffVars>>

\* after the loop: count severities and set the outputs
CountAndSetOutputs ==
    /\ pc = "analyze"
    /\ fileIdx > Len(mFiles)
    /\ errorCount' = ErrorCountOf(allComments)
    /\ outputs' = SetOutputs(Len(allComments), errorCount', filesAnalyzed)
    /\ logs' = Append(logs, Log("info", "Analyzed files"))
    /\ pc' = "post"
    /\ UNCHANGED <<config, changedFiles, mFiles, changedLines, allComments, fileIdx,
                   filesAnalyzed, reviews, failed, engineLog, diffVars>>

SubmissionOutcomes == {"ok", "403", "error"}

\* what the try/catch around postReview logs
LogOfSubmission(outcome) ==
    IF outcome = "ok" THEN <<Log("info", "Posted review comments.")>>
    ELSE IF outcome = "403"
         THEN <<Log("error", "conformal-action requires pull-requests: write permission.")>>
         ELSE <<Log("error", "Failed to post review")>>

FailedBySubmissionRethrow(outcome) == outcome # "ok"

\* whether the outcome of the submission reaches run().catch and core.setFailed
FailedBySubmission(outcome) == FALSE

\* if (allComments.length > 0) { try { await postReview(...) } catch ... }
PostReview ==
    /\ pc = "post"
    /\ Len(allComments) > 0
    /\ IF Submits(allComments, changedLines, config.filterToDiff)
       THEN \E outcome \in SubmissionOutcomes :
               /\ reviews' = Append(reviews, ReviewCall(allComments, changedLines,
                                                        config.filterToDiff, outcome))
               /\ logs' = logs \o LogOfSubmission(outcome)
               /\ IF FailedBySubmission(outcome)
                  THEN /\ failed' = TRUE
                       /\ pc' = "done"
                  ELSE /\ pc' = "failcheck"
                       /\ UNCHANGED failed
       ELSE /\ logs' = logs \o LogOfSubmission("ok")
            /\ pc' = "failcheck"
            /\ UNCHANGED <<reviews, failed>>
    /\ UNCHANGED <<config, changedFiles, mFiles, changedLines, allComments, fileIdx,
                   filesAnalyzed, errorCount, outputs, engineLog, diffVars>>

\* else { core.info('No warnings found. Clean!') }
NoWarnings ==
    /\ pc = "post"
    /\ Len(allComments) = 0
    /\ logs' = Append(logs, Log("info", "No warnings found. Clean!"))
    /\ pc' = "failcheck"
    /\ UNCHANGED <<config, changedFiles, mFiles, changedLines, allComments, fileIdx,
                   filesAnalyzed, errorCount, outputs, reviews, failed, engineLog, diffVars>>

FailsOnErrorIgnoresFlag(failOnError, errors) == errors > 0

\* if (config.failOnError && errorCount > 0) core.setFailed(...)
FailsOnError(failOnError, errors) == failOnError /\ errors > 0

FailCheck ==
    /\ pc = "failcheck"
    /\ failed' = FailsOnError(config.failOnError, errorCount)
    /\ pc' = "done"
    /\ UNCHANGED <<config, changedFiles, mFiles, changedLines, allComments, fileIdx,
                   filesAnalyzed, errorCount, outputs, reviews, logs, engineLog, diffVars>>
(***************************************************************************)
(* Inputs                                                                  *)
(***************************************************************************)
FileA == FileName("src", "a", "m")
FileB == FileName("src", "b", "m")
FileT == FileName("test", "t", "m")
FileDoc == FileName("docs", "notes", "txt")

\* @@ -1,2 +1,3 @@ / context / +added / +added : lines 2 and 3 are added
PatchA == <<HunkLine(1), CtxLine, AddLine, AddLine>>
\* @@ -2 +2 @@ / -old / +new : line 2 is replaced
PatchT == <<HunkLine(2), DelLine, AddLine>>
\* @@ -1 +0,0 @@ / -old : nothing is added
PatchDel == <<HunkLine(1), DelLine>>

\* What the pulls.listFiles pages can hold.
FileDomain ==
    { PullFile(FileA, "modified", PatchA),
      PullFile(FileT, "added", NoPatch),
      PullFile(FileB, "removed", PatchDel),
      PullFile(FileDoc, "modified", PatchA) }

ConfigDomain ==
    [pullRequest : BOOLEAN, strict : BOOLEAN, filterToDiff : BOOLEAN,
     failOnError : BOOLEAN, paths : {"**/*.m", "src/**/*.m"}]

DefaultConfig ==
    [pullRequest |-> TRUE, strict |-> FALSE, filterToDiff |-> TRUE,
     failOnError |-> FALSE, paths |-> "**/*.m"]

IndexOutOfBounds == <<"W", "INDEX", "OUT", "OF", "BOUNDS">>
UnsupportedSyntax == <<"W", "UNSUPPORTED", "SYNTAX">>
UnknownFunction == <<"W", "UNKNOWN", "FUNCTION">>
SuspiciousComparison == <<"W", "SUSPICIOUS", "COMPARISON">>

\* The diagnostics an engine result is drawn from.
DiagnosticPool ==
    << Diagnostic(5, UnsupportedSyntax, "unsupported syntax"),
       Diagnostic(2, IndexOutOfBounds, "index out of bounds"),
       Diagnostic(3, SuspiciousComparison, "suspicious comparison"),
       Diagnostic(7, UnknownFunction, "unknown function") >>

PoolAt(i) == DiagnosticPool[((i - 1) % Len(DiagnosticPool)) + 1]

\* the first n pool diagnostics
RECURSIVE PoolPrefix(_)
PoolPrefix(n) == IF n = 0 THEN <<>> ELSE Append(PoolPrefix(n - 1), PoolAt(n))

EngineDomain ==
    {Crash, ParseFailure(PoolPrefix(MaxDiags))}
        \cup {Diagnostics(PoolPrefix(n)) : n \in 0..MaxDiags}

RunIdle ==
    /\ pc = "idle"
    /\ config = DefaultConfig
    /\ changedFiles = <<>>
    /\ mFiles = <<>>
    /\ changedLines = << >>
    /\ allComments = <<>>
    /\ fileIdx = 1
    /\ filesAnalyzed = 0
    /\ errorCount = 0
    /\ outputs = NoOutputs
    /\ reviews = <<>>
    /\ failed = FALSE
    /\ logs = <<>>
    /\ engineLog = <<>>

DiffIdle ==
    /\ patch = <<EmptyLine>>
    /\ patchPos = 1
    /\ currentLine = 0
    /\ lines = {}
    /\ dpc = "idle"

(***************************************************************************)
(* Spec: one run of the action                                             *)
(***************************************************************************)
Init ==
    /\ pc = "start"
    /\ config \in ConfigDomain
    /\ changedFiles \in SeqsUpTo(FileDomain, MaxFiles)
    /\ mFiles = <<>>
    /\ changedLines = << >>
    /\ allComments = <<>>
    /\ fileIdx = 1
    /\ filesAnalyzed = 0
    /\ errorCount = 0
    /\ outputs = NoOutputs
    /\ reviews = <<>>
    /\ failed = FALSE
    /\ logs = <<>>
    /\ engineLog = <<>>
    /\ DiffIdle

Next ==
    \/ SkipNotPullRequest
    \/ FilterFiles
    \/ ParseDiffs
    \/ SkipUnreadable
    \/ SkipBinary
    \/ AnalyzeOne(EngineDomain)
    \/ CountAndSetOutputs
    \/ PostReview
    \/ NoWarnings
    \/ FailCheck

Spec == Init /\ [][Next]_vars

(***************************************************************************)
(* SpecDiff: parsePatchLines on every patch of up to MaxPatchLen lines     *)
(***************************************************************************)
InitDiff ==
    /\ RunIdle
    /\ patch \in PatchDomain
    /\ patchPos = 1
    /\ currentLine = 0
    /\ lines = {}
    /\ dpc = "scan"

NextDiff == ScanNext \/ ParseReturn

SpecDiff == InitDiff /\ [][NextDiff]_vars
(***************************************************************************)
(* SpecIndex: parseChangedLines on every list of up to MaxFiles entries    *)
(***************************************************************************)
IndexFileDomain ==
    { PullFile(name, status, p) :
        name \in {FileA, FileB},
        status \in {"modified", "removed"},
        p \in {NoPatch, <<EmptyLine>>, PatchDel, PatchT} }

InitIndex ==
    /\ pc = "parse"
    /\ config = DefaultConfig
    /\ changedFiles = <<>>
    /\ mFiles \in SeqsUpTo(IndexFileDomain, MaxFiles)
    /\ changedLines = << >>
    /\ allComments = <<>>
    /\ fileIdx = 1
    /\ filesAnalyzed = 0
    /\ errorCount = 0
    /\ outputs = NoOutputs
    /\ reviews = <<>>
    /\ failed = FALSE
    /\ logs = <<>>
    /\ engineLog = <<>>
    /\ DiffIdle

NextIndex == ParseDiffs

SpecIndex == InitIndex /\ [][NextIndex]_vars

(***************************************************************************)
(* Properties of parsePatchLines (SpecDiff)                                *)
(***************************************************************************)
Max(S) == CHOOSE x \in S : \A y \in S : y <= x

IsHeader(raw) == HunkMatch(raw) # NoMatch

\* the valid hunk headers before line i of p
HeadersBefore(p, i) == {h \in 1..(i - 1) : IsHeader(p[h])}

\* The true new-file number of the body line i of p: the new start of its hunk plus
\* the number of context and added lines before it in that hunk.
TrueLineNumber(p, i) ==
    LET h == Max(HeadersBefore(p, i))
    IN  p[h].newStart + Cardinality({j \in (h + 1)..(i - 1) : p[j] \in {CtxLine, AddLine}})

\* hunks with valid headers, whose bodies are added, removed and context lines and
\* "\ No newline at end of file" markers, each marker after the line it speaks of
HunksOnly(p) ==
    /\ IsHeader(p[1])
    /\ \A i \in 1..Len(p) :
          \/ IsHeader(p[i])
          \/ p[i] \in {AddLine, DelLine, CtxLine}
          \/ /\ p[i] = NoNewlineLine
             /\ p[i - 1] \in {AddLine, DelLine, CtxLine}

\* as git writes them: a marker after an added or a context line ends the patch (the
\* line is the last of the new file); a marker after a removed line may be followed by
\* added lines only
GitShaped(p) ==
    /\ HunksOnly(p)
    /\ \A i \in 1..Len(p) :
          p[i] = NoNewlineLine =>
              \/ i = Len(p)
              \/ /\ p[i - 1] = DelLine
                 /\ \A j \in (i + 1)..Len(p) : p[j] \in {AddLine, NoNewlineLine}

TrueAddedLines(p) == {TrueLineNumber(p, i) : i \in {j \in 1..Len(p) : p[j] = AddLine}}

TrueAddedOrContextLines(p) ==
    {TrueLineNumber(p, i) : i \in {j \in 1..Len(p) : p[j] \in {AddLine, CtxLine}}}

\* C5: for a patch of valid hunks of added, removed, context and no-newline-marker
\* lines, parsePatchLines returns exactly the true new-file numbers of the added lines.
C5_ReturnsTrueAddedLines ==
    (dpc = "returned" /\ GitShaped(patch)) => lines = TrueAddedLines(patch)

\* C5: what does hold: without a marker line the returned set is the true one.
C5_TrueWithoutMarker ==
    (dpc = "returned" /\ HunksOnly(patch) /\ \A i \in 1..Len(patch) : patch[i] # NoNewlineLine)
        => lines = TrueAddedLines(patch)

\* C6, as stated: a line number is in the set iff a hunk marks that new-side line as
\* added or as a context line.
C6_AddedOrContextLines ==
    (dpc = "returned" /\ HunksOnly(patch)) => lines = TrueAddedOrContextLines(patch)

\* The value of the cursor when line i of p is scanned: the new start of the last valid
\* header before it (0 when there is none) plus the number of lines since then that
\* are neither removed lines nor headers.
CursorAt(p, i) ==
    LET hs == HeadersBefore(p, i)
        h == IF hs = {} THEN 0 ELSE Max(hs)
        start == IF hs = {} THEN 0 ELSE p[h].newStart
    IN  start + Cardinality({j \in (h + 1)..(i - 1) : ~StartsWith(p[j], "-")})

\* C6, amended: a line number is in the set iff a line starting with '+' is scanned at
\* that cursor value; context lines and removed lines record nothing, so a patch with
\* no added line gives the empty set.
C6_AddedLinesOnly ==
    dpc = "returned" =>
        /\ lines = {CursorAt(patch, i) : i \in {j \in 1..Len(patch) : StartsWith(patch[j], "+")}}
        /\ (\A i \in 1..Len(patch) : ~StartsWith(patch[i], "+")) => lines = {}

C6_Witness ==
    /\ dpc = "returned"
    /\ patch = <<HunkLine(2), CtxLine, DelLine, AddLine>>
    /\ lines = {3}

(***************************************************************************)
(* Properties of parseChangedLines (SpecIndex)                             *)
(***************************************************************************)
Indexed == pc = "analyze"

EntriesOf(path) == {i \in 1..Len(mFiles) : mFiles[i].filename = path}

\* C7, as stated: a path has a key iff an entry of that path is not removed and has a
\* patch; a patch that adds no line gives a key mapped to the empty set.
C7_KeyIffHasPatch ==
    Indexed =>
        \A path \in {FileA, FileB} :
            path \in DOMAIN changedLines
                <=> \E i \in EntriesOf(path) :
                        mFiles[i].status # "removed" /\ mFiles[i].patch # NoPatch

Kept(i) ==
    /\ mFiles[i].status # "removed"
    /\ mFiles[i].patch # NoPatch
    /\ mFiles[i].patch # <<EmptyLine>>

\* C7, amended: a path has a key iff an entry of that path is not removed and has a
\* non-empty patch; the key maps to the lines of the last such entry, which is the empty
\* set when that patch adds no line; every other path has no key.
C7_KeyIffNonEmptyPatch ==
    Indexed =>
        \A path \in {FileA, FileB} :
            LET kept == {i \in EntriesOf(path) : Kept(i)}
            IN  /\ path \in DOMAIN changedLines <=> kept # {}
                /\ kept # {} =>
                      /\ mFiles[Max(kept)].patch = PatchDel => changedLines[path] = {}
                      /\ mFiles[Max(kept)].patch = PatchT => changedLines[path] = {2}

C7_Witness ==
    /\ Indexed
    /\ mFiles = <<PullFile(FileA, "modified", PatchDel), PullFile(FileB, "removed", PatchT)>>
    /\ DOMAIN changedLines = {FileA}
    /\ changedLines[FileA] = {}
(***************************************************************************)
(* SpecReview: run() from the point where the comments are counted, on     *)
(* comment lists of up to MaxComments entries                              *)
(***************************************************************************)
ReviewFileLists ==
    { <<PullFile(FileA, "modified", PatchA)>>,
      <<PullFile(FileA, "modified", PatchA), PullFile(FileB, "modified", PatchT)>>,
      <<PullFile(FileA, "modified", PatchDel), PullFile(FileB, "added", NoPatch)>> }

\* where a diagnostic can be: file, line and code
SlotDomain ==
    { [path |-> FileA, line |-> 2, code |-> IndexOutOfBounds],
      [path |-> FileA, line |-> 1, code |-> SuspiciousComparison],
      [path |-> FileB, line |-> 2, code |-> UnsupportedSyntax] }

\* The list of n comments that repeats the slots of pattern; comment i has message i.
CommentList(pattern, n) ==
    [i \in 1..n |->
        LET s == pattern[((i - 1) % Len(pattern)) + 1]
        IN  ReviewComment(s.path, s.line, s.code, ToString(i), ClassifySeverity(s.code))]

CommentListDomain ==
    { CommentList(pattern, n) :
        pattern \in {q \in SeqsUpTo(SlotDomain, MaxPattern) : Len(q) >= 1},
        n \in 0..MaxComments }

InitReview ==
    /\ pc = "post"
    /\ config \in {c \in ConfigDomain : /\ c.pullRequest /\ ~c.failOnError
                                        /\ c.strict /\ c.paths = "**/*.m"}
    /\ mFiles \in ReviewFileLists
    /\ changedFiles = mFiles
    /\ changedLines = ParseChangedLines(mFiles)
    /\ allComments \in CommentListDomain
    /\ fileIdx = Len(mFiles) + 1
    /\ filesAnalyzed = Len(mFiles)
    /\ errorCount = ErrorCountOf(allComments)
    /\ outputs = SetOutputs(Len(allComments), errorCount, filesAnalyzed)
    /\ reviews = <<>>
    /\ failed = FALSE
    /\ logs = <<Log("info", "Analyzed files")>>
    /\ engineLog = <<>>
    /\ DiffIdle

NextReview == PostReview \/ NoWarnings

SpecReview == InitReview /\ [][NextReview]_vars
(***************************************************************************)
(* Properties of postReview (SpecReview)                                   *)
(***************************************************************************)
\* postReview has returned
Posted == pc = "failcheck"

\* the positions in allComments of the comments on a line of the index
EligiblePositions ==
    {i \in 1..Len(allComments) :
        /\ allComments[i].path \in DOMAIN changedLines
        /\ allComments[i].line \in changedLines[allComments[i].path]}

OutOfDiffPositions == (1..Len(allComments)) \ EligiblePositions

\* the positions 1..n that are in S, in increasing order
InOrder(S, n) == SelectSeq([i \in 1..n |-> i], LAMBDA i : i \in S)

PartsOfKind(body, kind) == {j \in 1..Len(body) : body[j].kind = kind}

\* C1: the inline list of the submission is the first min(N, 50) inline-eligible
\* comments in input order, never more than 50, and the body has the "more warnings not
\* shown inline" line, with the number N - 50, iff N > 50.
C1_InlineCappedAt50 ==
    (Posted /\ Len(reviews) = 1) =>
        LET N == Cardinality(EligiblePositions)
            eligible == InOrder(EligiblePositions, Len(allComments))
            r == reviews[1]
        IN  /\ Len(r.comments) <= 50
            /\ Len(r.comments) = IF N < 50 THEN N ELSE 50
            /\ \A k \in 1..Len(r.comments) :
                  LET c == allComments[eligible[k]]
                  IN  /\ r.comments[k].path = c.path
                      /\ r.comments[k].line = c.line
                      /\ r.comments[k].body.text = c.body
            /\ PartsOfKind(r.body, "overflow") # {} <=> N > 50
            /\ \A j \in PartsOfKind(r.body, "overflow") : r.body[j].count = N - 50
            /\ Cardinality(PartsOfKind(r.body, "overflow")) <= 1

\* 60 inline-eligible comments, filterToDiff set: 50 posted, "10 more"
C1_Witness ==
    /\ Posted
    /\ Len(reviews) = 1
    /\ config.filterToDiff
    /\ Cardinality(EligiblePositions) = 60
    /\ Len(reviews[1].comments) = 50
    /\ reviews[1].body[1] = BodyPart("overflow", 10, <<>>, 0)

UnsupportedFuture == <<"W", "UNSUPPORTED", "FUTURE">>

\* the codes of the two tables, and codes that are in neither
CodeDomain ==
    ERROR_CODES \cup STRICT_ONLY_CODES
        \cup { SuspiciousComparison, UnsupportedFuture,
               <<"W", "UNSUPPORTED">>, <<"W", "UNSUPPORTED", "">>,
               <<"W", "UNSUPPORTEDX", "SYNTAX">>, <<"X", "UNSUPPORTED", "SYNTAX">>,
               <<"E", "INDEX", "OUT", "OF", "BOUNDS">> }

ClassifyEngineDomain == {Diagnostics(<<Diagnostic(2, code, "message")>>) : code \in CodeDomain}

InitClassify ==
    /\ pc = "analyze"
    /\ config \in {c \in ConfigDomain : /\ c.pullRequest /\ ~c.failOnError
                                        /\ c.filterToDiff /\ c.paths = "**/*.m"}
    /\ changedFiles = <<PullFile(FileA, "modified", PatchA)>>
    /\ mFiles = changedFiles
    /\ changedLines = ParseChangedLines(mFiles)
    /\ allComments = <<>>
    /\ fileIdx = 1
    /\ filesAnalyzed = 0
    /\ errorCount = 0
    /\ outputs = NoOutputs
    /\ reviews = <<>>
    /\ failed = FALSE
    /\ logs = <<>>
    /\ engineLog = <<>>
    /\ DiffIdle

NextClassify == AnalyzeOne(ClassifyEngineDomain) \/ CountAndSetOutputs

SpecClassify == InitClassify /\ [][NextClassify]_vars

(***************************************************************************)
(* Properties of analyzeFile and classifySeverity (SpecClassify)           *)
(***************************************************************************)
\* the codes of CodeDomain that begin with W_UNSUPPORTED_
UnsupportedPrefixed ==
    { <<"W", "UNSUPPORTED", "BUILTIN">>, <<"W", "UNSUPPORTED", "SYNTAX">>,
      <<"W", "UNSUPPORTED", "INDEX", "TYPE">>, <<"W", "UNSUPPORTED", "FIELD", "BASE">>,
      <<"W", "UNSUPPORTED", "HANDLE", "TARGET">>, <<"W", "UNSUPPORTED", "SWITCH", "EXPR">>,
      UnsupportedFuture, <<"W", "UNSUPPORTED", "">> }

\* C8: the decision for a code is a function of (code, strict): a strict-only code is
\* dropped when strict is false; otherwise the severity is error for a code of the error
\* set, else hint for a code starting with W_UNSUPPORTED_, else warning.
C8_ClassificationDecision ==
    (pc = "analyze" /\ fileIdx = 2) =>
        LET code == engineLog[1].engine.diagnostics[1].code
        IN  IF code \in STRICT_ONLY_CODES /\ ~config.strict
            THEN allComments = <<>>
            ELSE /\ Len(allComments) = 1
                 /\ allComments[1].code = code
                 /\ allComments[1].severity =
                        IF code \in ERROR_CODES THEN "error"
                        ELSE IF code \in UnsupportedPrefixed THEN "hint"
                        ELSE "warning"
                 /\ code = IndexOutOfBounds => allComments[1].severity = "error"
                 /\ code = UnsupportedSyntax => allComments[1].severity = "hint"
                 /\ code \notin (ERROR_CODES \cup STRICT_ONLY_CODES \cup UnsupportedPrefixed)
                        => allComments[1].severity = "warning"

C8_Witness ==
    /\ pc = "analyze"
    /\ fileIdx = 2
    /\ config.strict
    /\ engineLog[1].engine.diagnostics[1].code = UnsupportedSyntax
    /\ Len(allComments) = 1
    /\ allComments[1].severity = "hint"

(***************************************************************************)
(* Properties of run() (Spec)                                              *)
(***************************************************************************)
AfterLoop == pc \in {"post", "failcheck"} \/ (pc = "done" /\ Len(mFiles) > 0)

\* the number of comments a loop iteration must have added
Contribution(entry) ==
    IF entry.what # "analyzed" THEN 0
    ELSE IF entry.engine.kind = "throw" THEN 1
    ELSE IF entry.engine.parseError # "" THEN 1
    ELSE Cardinality({j \in 1..Len(entry.engine.diagnostics) :
                         config.strict \/ entry.engine.diagnostics[j].code \notin STRICT_ONLY_CODES})

RECURSIVE ContributionsBefore(_)
ContributionsBefore(k) ==
    IF k = 1 THEN 0 ELSE ContributionsBefore(k - 1) + Contribution(engineLog[k - 1])

\* C9: an engine failure on a file never aborts the run.  A throw gives exactly one
\* comment for the file, at line 1 with severity warning; a parse error gives exactly
\* one, at line 1 with severity error, and none of the file's diagnostics; every file
\* of the list is visited and the comments of the other files are all kept.
C9_EngineFailureIsOneComment ==
    /\ pc = "analyze" => Len(engineLog) = fileIdx - 1
    /\ AfterLoop => Len(engineLog) = Len(mFiles)
    /\ pc \in {"analyze", "post", "failcheck"} => ~failed
    /\ pc \in {"analyze", "post", "failcheck"} =>
          /\ Len(allComments) = ContributionsBefore(Len(engineLog) + 1)
          /\ \A k \in 1..Len(engineLog) :
                LET entry == engineLog[k]
                    from == ContributionsBefore(k)
                IN  /\ entry.path = mFiles[k].filename
                    /\ \A j \in 1..Contribution(entry) :
                          allComments[from + j].path = entry.path
                    /\ (entry.what = "analyzed" /\ entry.engine.kind = "throw") =>
                          /\ allComments[from + 1].line = 1
                          /\ allComments[from + 1].severity = "warning"
                    /\ (entry.what = "analyzed" /\ entry.engine.kind = "result"
                            /\ entry.engine.parseError # "") =>
                          /\ allComments[from + 1].line = 1
                          /\ allComments[from + 1].severity = "error"

\* a file that crashes the engine, then a file with a diagnostic, both in the comments
C9_Witness ==
    /\ pc = "post"
    /\ Len(engineLog) = 2
    /\ engineLog[1].engine.kind = "throw"
    /\ engineLog[2].engine.kind = "result"
    /\ engineLog[2].engine.parseError = ""
    /\ Len(allComments) = 2
    /\ allComments[1].severity = "warning"
    /\ allComments[2].path = engineLog[2].path

\* C4: createReview is called at most once, with event COMMENT and every inline entry
\* on side RIGHT, and it is called iff the final inline list is not empty or some body
\* text was composed: never for an empty comment list, nor when no comment is on a diff
\* line and the out-of-diff ones are not summarised.
C4_AtMostOneReview ==
    /\ Len(reviews) <= 1
    /\ \A i \in 1..Len(reviews) :
          /\ reviews[i].event = "COMMENT"
          /\ \A k \in 1..Len(reviews[i].comments) : reviews[i].comments[k].side = "RIGHT"
          /\ Len(reviews[i].comments) > 0 \/ Len(reviews[i].body) > 0
    /\ pc \in {"failcheck", "done"} =>
          (Len(reviews) = 1
              <=> \/ EligiblePositions # {}
                  \/ (config.filterToDiff /\ OutOfDiffPositions # {}))
    /\ (pc \in {"failcheck", "done"} /\ allComments = <<>>) => reviews = <<>>

\* comments exist, none on a diff line, no summary asked for: nothing is submitted
C4_Witness ==
    /\ pc = "done"
    /\ ~config.filterToDiff
    /\ Len(allComments) > 0
    /\ EligiblePositions = {}
    /\ reviews = <<>>

\* C10: the outcome of the submission does not change the result of the run: the
\* outputs are set from all the comments before the submission and stay; a failed
\* submission is logged and does not fail the run; the run is marked failed iff
\* fail_on_error is set and a comment has severity error.
C10_SubmissionOutcomeIgnored ==
    LET errors == Cardinality({i \in 1..Len(allComments) : allComments[i].severity = "error"})
        analyzed == Cardinality({k \in 1..Len(engineLog) : engineLog[k].what = "analyzed"})
    IN  /\ AfterLoop =>
              /\ outputs["total_warnings"] = ToString(Len(allComments))
              /\ outputs["error_count"] = ToString(errors)
              /\ outputs["files_analyzed"] = ToString(analyzed)
        /\ pc = "post" => reviews = <<>>
        /\ pc = "failcheck" => ~failed
        /\ pc = "done" => (failed <=> (config.failOnError /\ errors > 0))
        /\ \A i \in 1..Len(reviews) :
              /\ pc \in {"failcheck", "done"}
              /\ reviews[i].response = "403" =>
                    logs[Len(logs)] = Log("error",
                        "conformal-action requires pull-requests: write permission.")
              /\ reviews[i].response = "error" =>
                    logs[Len(logs)] = Log("error", "Failed to post review")

\* a refused submission, errors found, fail_on_error unset: the run is not failed
C10_Witness ==
    /\ pc = "done"
    /\ Len(reviews) = 1
    /\ reviews[1].response = "403"
    /\ errorCount > 0
    /\ ~config.failOnError
    /\ ~failed
    /\ outputs["error_count"] = ToString(errorCount)

\* a failed submission with fail_on_error set and an error comment: the run is failed
C10_WitnessFailed ==
    /\ pc = "done"
    /\ Len(reviews) = 1
    /\ reviews[1].response = "error"
    /\ config.failOnError
    /\ failed
(***************************************************************************)
(* Line numbers of malformed patches (SpecDiff)                            *)
(***************************************************************************)
\* no valid hunk header among the lines scanned so far
NoHeaderScanned == HeadersBefore(patch, patchPos) = {}

\* C11: every line number of the set is >= 1, for every patch, malformed ones included:
\* while no valid hunk header has been scanned the cursor stays at 0 and no line is
\* recorded.
C11_LinesArePositive ==
    dpc \in {"scan", "returned"} =>
        /\ \A n \in lines : n >= 1
        /\ NoHeaderScanned => (currentLine = 0 /\ lines = {})

\* C11: what does hold: the numbers recorded after a valid header are >= 1, and 0 is
\* in the set exactly when the first line scanned at cursor 0 starts with '+'.
C11_ZeroOnlyBeforeHeader ==
    dpc = "returned" =>
        /\ \A n \in lines : n >= 0
        /\ 0 \in lines <=>
              \E i \in 1..Len(patch) :
                  /\ StartsWith(patch[i], "+")
                  /\ HeadersBefore(patch, i) = {}
                  /\ \A j \in 1..(i - 1) : StartsWith(patch[j], "-")
====
